---- MODULE Spec2Model ----
(***************************************************************************)
(* A model of the heap allocator of src/src/osmem.c: os_malloc, os_calloc, *)
(* os_free and os_realloc over a program break (sbrk) and anonymous        *)
(* mappings (mmap/munmap).                                                 *)
(*                                                                         *)
(* The registry is the singly linked list anchored at global_base; it is   *)
(* modelled as the sequence of its headers in list order (next is the      *)
(* following element, the last element's next is NULL, the empty sequence  *)
(* is global_base == NULL).  Memory contents are modelled as a set of      *)
(* extents; a byte no extent covers holds zero, as memory fresh from the   *)
(* kernel does.                                                            *)
(***************************************************************************)
EXTENDS Integers, Sequences, FiniteSets, TLC

VARIABLES reg, brk, maps, data, held, freed, last, pc, nops

vars == <<reg, brk, maps, data, held, freed, last, pc, nops>>

----------------------------------------------------------------------------
(* Program constants *)

MMAP_THRESHOLD == 131072
ALIGNMENT == 8
PageSize == 4096
SizeofBlockMeta == 24

STATUS_FREE == "FREE"
STATUS_ALLOC == "ALLOC"
STATUS_MAPPED == "MAPPED"

NULL == 0

\* ALIGN without its rounding
ALIGN_exact(size) == size

ALIGN(size) == ((size + (ALIGNMENT - 1)) \div ALIGNMENT) * ALIGNMENT

\* ALIGN(sizeof(block_meta)): the distance from a header to its payload
HDR == ALIGN(SizeofBlockMeta)

\* ALIGN(sizeof(block_meta) + ALIGN(1)): the smallest block worth splitting off
MinBlock == ALIGN(SizeofBlockMeta + ALIGN(1))

----------------------------------------------------------------------------
(* Request sizes.  size_t has 64 bits and int has 32: a size a caller passes *)
(* is modelled as the pair hi, lo that stands for hi * 2^32 + lo, with lo    *)
(* and every result below 2^31, so that the conversions the code makes are   *)
(* exact on the pairs: a size_t product drops the multiples of 2^64 and an   *)
(* int keeps the low 32 bits.                                                *)

size_t(hi, lo) == [hi |-> hi, lo |-> lo]

IsZero(w) == w.hi = 0 /\ w.lo = 0

\* size *= nmemb, in size_t: modulo 2^64 the term hi * hi * 2^64 is dropped
mul_size_t(a, b) == size_t(a.hi * b.lo + a.lo * b.hi, a.lo * b.lo)

\* int aligned_size = ALIGN(sizeof(block_meta)) + ALIGN(size): the low 32
\* bits of the size_t sum
aligned_int(w) == HDR + ALIGN(w.lo)

\* a size_t that is at least 2^32: more than the whole modelled memory
Huge(w) == w.hi > 0

\* block_size >= ALIGN(size) + ALIGN(sizeof(block_meta)) + extra, in size_t
Reaches(block_size, w, extra) == ~Huge(w) /\ block_size >= ALIGN(w.lo) + HDR + extra

----------------------------------------------------------------------------
(* Bounds of the model and the address space the kernel hands out *)

MaxOps == 4
MaxOpsDeep == 5
MaxMaps == 2
MaxBlocks == 3
MaxOpsFit == 2

\* sbrk(0) before the first extension: page aligned
HeapBase == 256 * PageSize
\* mmap places a region in one of MaxMaps slots, far from the heap
MapBase == 65536 * PageSize
MapStride == 256 * PageSize
Slots == 0 .. (MaxMaps - 1)
MapAddr(slot) == MapBase + slot * MapStride
\* above every address the kernel hands out
AddressTop == MapBase + MaxMaps * MapStride

Min(a, b) == IF a <= b THEN a ELSE b
Max(a, b) == IF a >= b THEN a ELSE b
Overlap(a1, a2, b1, b2) == a1 < a2 /\ b1 < b2 /\ a1 < b2 /\ b1 < a2

----------------------------------------------------------------------------
(* Memory contents: extents [lo, hi) whose byte at address a holds          *)
(* <<tag, a - base>>                                                        *)

Erase(d, lo, hi) ==
  IF lo >= hi THEN d
  ELSE { [e EXCEPT !.hi = Min(e.hi, lo)] : e \in {x \in d : x.lo < lo} }
       \cup { [e EXCEPT !.lo = Max(e.lo, hi)] : e \in {x \in d : x.hi > hi} }

Put(d, lo, hi, tag, base) ==
  IF lo >= hi THEN d
  ELSE Erase(d, lo, hi) \cup {[lo |-> lo, hi |-> hi, tag |-> tag, base |-> base]}

Clip(d, lo, hi) ==
  { [e EXCEPT !.lo = Max(e.lo, lo), !.hi = Min(e.hi, hi)] :
      e \in {x \in d : Overlap(x.lo, x.hi, lo, hi)} }

Shift(d, by) ==
  { [lo |-> e.lo + by, hi |-> e.hi + by, tag |-> e.tag, base |-> e.base + by] : e \in d }

ByteAt(d, a) ==
  IF \E e \in d : e.lo <= a /\ a < e.hi
  THEN LET e == CHOOSE x \in d : x.lo <= a /\ a < x.hi IN <<e.tag, a - e.base>>
  ELSE <<"zero", 0>>

\* the n bytes at p in d equal the n bytes at q in d2
SameBytes(d, p, d2, q, n) ==
  LET cuts == {0} \cup { e.lo - p : e \in Clip(d, p, p + n) }
                  \cup { e.hi - p : e \in Clip(d, p, p + n) }
                  \cup { e.lo - q : e \in Clip(d2, q, q + n) }
                  \cup { e.hi - q : e \in Clip(d2, q, q + n) }
  IN \A c \in cuts : (c >= 0 /\ c < n) => ByteAt(d, p + c) = ByteAt(d2, q + c)

AllZero(d, p, n) == Clip(d, p, p + n) = {}

----------------------------------------------------------------------------
(* The registry *)

Block(addr, size, status) == [addr |-> addr, size |-> size, status |-> status]

\* index of the registry block whose header is at addr, 0 if none
IndexOf(r, addr) ==
  IF \E i \in 1 .. Len(r) : r[i].addr = addr
  THEN CHOOSE i \in 1 .. Len(r) : r[i].addr = addr
  ELSE 0

Remove(r, i) == SubSeq(r, 1, i - 1) \o SubSeq(r, i + 1, Len(r))

\* if (!best_fit || current->size < best_fit->size) without its second test
better_or_equal(r, current, best_fit) ==
  best_fit = 0 \/ r[current].size <= r[best_fit].size

\* if (!best_fit || current->size < best_fit->size)
better(r, current, best_fit) ==
  best_fit = 0 \/ r[current].size < r[best_fit].size

\* the loop of find_best_fit from position current; 0 stands for NULL
RECURSIVE best_fit_from(_, _, _, _)
best_fit_from(r, size, current, best_fit) ==
  IF current > Len(r) THEN best_fit
  ELSE best_fit_from(r, size, current + 1,
         IF r[current].status = STATUS_FREE /\ r[current].size >= size
            /\ better(r, current, best_fit)
         THEN current ELSE best_fit)

find_best_fit(r, size) == best_fit_from(r, size, 1, 0)

\* if (prev && prev->status == STATUS_FREE) never taken
merges_back_never(r, current, prev) == FALSE

\* if (prev && prev->status == STATUS_FREE)
merges_back(r, current, prev) == prev # 0 /\ r[prev].status = STATUS_FREE

\* prev->size += current->size; prev->next = current->next; current = prev
merge_into(r, i) == Remove([r EXCEPT ![i].size = @ + r[i + 1].size], i + 1)

\* the body of the loop of coalesce_blocks on a FREE block at position current
coalesce_step(r, current) ==
  IF current < Len(r) /\ r[current + 1].status = STATUS_FREE
  THEN merge_into(r, current) ELSE r

\* the loop of coalesce_blocks from position current with the given prev;
\* yields the list and the last value of prev (0 stands for NULL)
RECURSIVE coalesce_from(_, _, _)
coalesce_from(r, current, prev) ==
  IF current > Len(r) THEN [reg |-> r, last |-> prev]
  ELSE IF r[current].status # STATUS_FREE THEN coalesce_from(r, current + 1, current)
  ELSE IF merges_back(r, current, prev)
  THEN coalesce_from(coalesce_step(merge_into(r, prev), prev), prev + 1, prev)
  ELSE coalesce_from(coalesce_step(r, current), current + 1, current)

\* the list after coalesce_blocks()
coalesce_blocks(r) == coalesce_from(r, 1, 0).reg

\* the block coalesce_blocks() returns
coalesce_last(r) == coalesce_from(r, 1, 0).last

----------------------------------------------------------------------------
(* The allocator's view of the process: s = [reg, brk, maps, data, mmaps,    *)
(* unmaps, copies, oob, overlap, wreck, died].  mmaps, unmaps and copies     *)
(* list the mmap, munmap and memcpy calls made during the current call,      *)
(* overlap records a memcpy                                                  *)
(* between overlapping ranges, oob records an                                *)
(* access outside [HeapBase, brk) and every live mapping, wreck records that *)
(* a registry header was overwritten or unmapped (the list is then no longer *)
(* what reg says), died records DIE() ending the process.                    *)

InHeap(s, lo, hi) == HeapBase <= lo /\ hi <= s.brk
\* the kernel maps whole pages: a mapping of size bytes covers PageUp(size)
PageUp(size) == ((size + (PageSize - 1)) \div PageSize) * PageSize
InMap(s, lo, hi) == \E m \in s.maps : m.addr <= lo /\ hi <= m.addr + PageUp(m.size)
Valid(s, lo, hi) == lo >= hi \/ InHeap(s, lo, hi) \/ InMap(s, lo, hi)

HitsHeader(r, lo, hi) ==
  \E i \in 1 .. Len(r) : Overlap(lo, hi, r[i].addr, r[i].addr + SizeofBlockMeta)

\* the header found at addr: a registry block, a mapped block, or nothing
HasBlock(s, addr) ==
  IndexOf(s.reg, addr) # 0 \/ \E m \in s.maps : m.addr = addr

BlockAt(s, addr) ==
  IF IndexOf(s.reg, addr) # 0 THEN s.reg[IndexOf(s.reg, addr)]
  ELSE LET m == CHOOSE x \in s.maps : x.addr = addr
       IN Block(addr, m.size, STATUS_MAPPED)

\* block->size = ...; block->status = ...; block->next = ...; at a new header
write_header(s, addr) ==
  [s EXCEPT !.data = Put(@, addr, addr + SizeofBlockMeta, "meta", addr),
            !.oob = @ \/ ~Valid(s, addr, addr + SizeofBlockMeta),
            !.wreck = @ \/ HitsHeader(s.reg, addr, addr + SizeofBlockMeta)]

sbrk(s, size) == [s EXCEPT !.brk = @ + size]

mmap(s, size, slot) ==
  [s EXCEPT !.maps = @ \cup {[addr |-> MapAddr(slot), size |-> size]},
            !.data = Erase(@, MapAddr(slot), MapAddr(slot) + MapStride),
            !.mmaps = Append(@, [addr |-> MapAddr(slot), size |-> size])]

munmap(s, addr, size, status) ==
  LET logged == [s EXCEPT !.unmaps = Append(@, Block(addr, size, status))]
  IN IF \E m \in s.maps : m.addr = addr
     THEN [logged EXCEPT !.maps = {m \in @ : m.addr # addr},
                         !.data = Erase(@, addr, addr + MapStride)]
     ELSE IF addr % PageSize # 0
     THEN [logged EXCEPT !.died = TRUE]
     ELSE [logged EXCEPT !.wreck = TRUE]

request_space_malloc(s, size, slot) ==
  IF size < MMAP_THRESHOLD
  THEN [s |-> write_header(sbrk(s, size), s.brk),
        block |-> Block(s.brk, size, STATUS_ALLOC)]
  ELSE [s |-> write_header(mmap(s, size, slot), MapAddr(slot)),
        block |-> Block(MapAddr(slot), size, STATUS_MAPPED)]

request_space_calloc(s, size, slot) ==
  IF size < PageSize
  THEN [s |-> write_header(sbrk(s, size), s.brk),
        block |-> Block(s.brk, size, STATUS_ALLOC)]
  ELSE [s |-> write_header(mmap(s, size, slot), MapAddr(slot)),
        block |-> Block(MapAddr(slot), size, STATUS_MAPPED)]

\* split registry block i at offset size
split_block(s, i, size) ==
  LET b == s.reg[i]
      new_block == Block(b.addr + size, b.size - size, STATUS_FREE)
      s1 == write_header(s, new_block.addr)
  IN [s1 EXCEPT !.reg = SubSeq(@, 1, i - 1) \o <<[b EXCEPT !.size = size], new_block>>
                        \o SubSeq(@, i + 1, Len(@))]

first_time_prealloc(s) ==
  LET s1 == write_header(sbrk(s, MMAP_THRESHOLD), s.brk)
  IN [s1 EXCEPT !.reg = <<Block(s.brk, MMAP_THRESHOLD, STATUS_FREE)>>]

\* absorb every FREE successor of registry block i
RECURSIVE absorb(_, _)
absorb(r, i) ==
  IF i < Len(r) /\ r[i + 1].status = STATUS_FREE
  THEN absorb(Remove([r EXCEPT ![i].size = @ + r[i + 1].size], i + 1), i)
  ELSE r

\* realloc_expand without its loop: no FREE successor is absorbed
realloc_expand_no_absorb(r, i) == r

\* the registry after realloc_expand(block i, size); it returns block when
\* the grown block reaches size and NULL otherwise
realloc_expand(r, i) == absorb(r, i)

get_block_ptr(ptr) == ptr - HDR

\* if (block->size >= aligned_size + ALIGN(sizeof(block_meta) + ALIGN(1))) split
split_if_room(s, i, aligned_size) ==
  IF s.reg[i].size >= aligned_size + MinBlock THEN split_block(s, i, aligned_size) ELSE s

mark(s, i, status) == [s EXCEPT !.reg[i].status = status]

----------------------------------------------------------------------------
(* The four public operations.  Each returns [s |-> the state after the    *)
(* call, ret |-> the pointer returned].  slot is where the kernel places a *)
(* mapping the call asks for; ub resolves undefined behaviour (a memcpy    *)
(* whose ranges overlap).                                                  *)

memset0(s, ptr, n) ==
  [s EXCEPT !.data = Erase(@, ptr, ptr + n),
            !.oob = @ \/ ~Valid(s, ptr, ptr + n),
            !.wreck = @ \/ HitsHeader(s.reg, ptr, ptr + n)]

\* memcpy(dst, src, n).  When the ranges overlap the behaviour is undefined:
\* the copy is then either exact, or (ub) a destination byte whose source
\* byte lies inside the destination range holds junk, since the source may
\* have been overwritten before it was read.
memcpy(s, dst, src, n, ub) ==
  LET exact == Erase(s.data, dst, dst + n)
               \cup Shift(Clip(s.data, src, src + n), dst - src)
      jlo == IF dst > src THEN dst + (dst - src) ELSE dst
      jhi == IF dst > src THEN dst + n ELSE dst + n - (src - dst)
  IN [s EXCEPT !.data = IF ub /\ dst # src /\ Overlap(dst, dst + n, src, src + n)
                        THEN Put(exact, jlo, jhi, "junk", jlo)
                        ELSE exact,
               !.copies = Append(@, [dst |-> dst, src |-> src, n |-> n]),
               !.overlap = @ \/ (dst # src /\ Overlap(dst, dst + n, src, src + n)),
               !.oob = @ \/ ~Valid(s, src, src + n) \/ ~Valid(s, dst, dst + n),
               !.wreck = @ \/ HitsHeader(s.reg, dst, dst + n)]

\* a FREE block that fits was found: split it if there is room, hand it out
reuse_block(s, block, aligned_size) ==
  [s |-> mark(split_if_room(s, block, aligned_size), block, STATUS_ALLOC),
   ret |-> s.reg[block].addr + HDR]

\* the FREE last block grows by the size of the block r that request_space_*
\* returned: last->size += block->size; block = last; then as for a fit
expand_last(r, last_, aligned_size) ==
  reuse_block([r.s EXCEPT !.reg[last_].size = @ + r.block.size], last_, aligned_size)

\* a new block r from request_space_*: last->next = block when it came
\* from sbrk (last == NULL would be dereferenced); a mapping stays off the list
append_block(r, last_) ==
  [s |-> IF r.block.status # STATUS_ALLOC THEN r.s
         ELSE IF last_ # 0 THEN [r.s EXCEPT !.reg = Append(@, r.block)]
         ELSE [r.s EXCEPT !.wreck = TRUE],
   ret |-> r.block.addr + HDR]

\* os_malloc after first_time_prealloc and coalesce_blocks
malloc_search(s, last_, aligned_size, slot) ==
  IF find_best_fit(s.reg, aligned_size) # 0
  THEN reuse_block(s, find_best_fit(s.reg, aligned_size), aligned_size)
  ELSE IF last_ # 0 /\ s.reg[last_].status = STATUS_FREE
  THEN expand_last(request_space_malloc(s, aligned_size - s.reg[last_].size, slot),
                   last_, aligned_size)
  ELSE append_block(request_space_malloc(s, aligned_size, slot), last_)

\* os_malloc after first_time_prealloc
malloc_placed(s, aligned_size, slot) ==
  malloc_search([s EXCEPT !.reg = coalesce_blocks(@)], coalesce_last(s.reg),
                aligned_size, slot)

os_malloc(s, size, slot) ==
  IF IsZero(size) THEN [s |-> s, ret |-> NULL]
  ELSE malloc_placed(
         IF s.reg = <<>> /\ aligned_int(size) < MMAP_THRESHOLD
         THEN first_time_prealloc(s) ELSE s,
         aligned_int(size), slot)

\* os_calloc after first_time_prealloc and coalesce_blocks
calloc_search(s, last_, aligned_size, slot) ==
  IF find_best_fit(s.reg, aligned_size) # 0
  THEN reuse_block(s, find_best_fit(s.reg, aligned_size), aligned_size)
  ELSE IF last_ # 0 /\ s.reg[last_].status = STATUS_FREE
  THEN expand_last(request_space_calloc(s, aligned_size - s.reg[last_].size, slot),
                   last_, aligned_size)
  ELSE append_block(request_space_calloc(s, aligned_size, slot), last_)

\* os_calloc after first_time_prealloc
calloc_placed(s, aligned_size, slot) ==
  calloc_search([s EXCEPT !.reg = coalesce_blocks(@)], coalesce_last(s.reg),
                aligned_size, slot)

\* memset(payload, 0, size) on the block every path of os_calloc returns; a
\* size of 2^32 or more runs over everything above the payload
calloc_zero(r, size) ==
  [s |-> memset0(r.s, r.ret, IF Huge(size) THEN AddressTop - r.ret ELSE size.lo),
   ret |-> r.ret]

\* os_calloc after size *= nmemb
calloc_sized(s, size, slot) ==
  calloc_zero(
    calloc_placed(
      IF s.reg = <<>> /\ aligned_int(size) < PageSize
      THEN first_time_prealloc(s) ELSE s,
      aligned_int(size), slot),
    size)

os_calloc(s, nmemb, size0, slot) ==
  IF IsZero(nmemb) \/ IsZero(size0) THEN [s |-> s, ret |-> NULL]
  ELSE calloc_sized(s, mul_size_t(size0, nmemb), slot)

\* os_free once the header is read: mark an ALLOC block FREE, munmap any other
free_block(s, block) ==
  IF block.status = STATUS_ALLOC
  THEN mark(s, IndexOf(s.reg, block.addr), STATUS_FREE)
  ELSE munmap(s, block.addr, block.size, block.status)

os_free(s, ptr) ==
  IF ptr = NULL THEN s ELSE free_block(s, BlockAt(s, get_block_ptr(ptr)))

\* the copy of os_realloc's two move paths, m being what os_malloc returned:
\* memcpy(new_ptr, ptr, new_block->size - ALIGN(sizeof(block_meta))); os_free(ptr)
realloc_copy(m, ptr, ub) ==
  IF m.ret = NULL THEN [s |-> m.s, ret |-> NULL]
  ELSE [s |-> os_free(memcpy(m.s, m.ret, ptr,
                             BlockAt(m.s, get_block_ptr(m.ret)).size - HDR, ub), ptr),
        ret |-> m.ret]

\* the tail of os_realloc shared by its two move paths: allocate, copy, free
realloc_move(s, ptr, size, slot, ub) ==
  realloc_copy(os_malloc(s, size, slot), ptr, ub)

\* os_realloc after coalesce_blocks and realloc_expand on registry block j
realloc_grow(s, j, ptr, size, slot, ub) ==
  IF Reaches(s.reg[j].size, size, 0)
  THEN [s |-> split_if_room(s, j, ALIGN(size.lo) + HDR), ret |-> ptr]
  ELSE realloc_move(s, ptr, size, slot, ub)

\* os_realloc once the header of a live block is read
realloc_block(s, block, ptr, size, slot, ub) ==
  IF block.status = STATUS_FREE THEN [s |-> s, ret |-> NULL]
  ELSE IF ~Huge(size) /\ block.size = ALIGN(size.lo) + HDR THEN [s |-> s, ret |-> ptr]
  ELSE IF block.status = STATUS_MAPPED
  THEN realloc_move(s, ptr, size, slot, ub)
  ELSE IF Reaches(block.size, size, 0) /\ Reaches(block.size, size, MinBlock)
  THEN [s |-> split_block(s, IndexOf(s.reg, block.addr), ALIGN(size.lo) + HDR), ret |-> ptr]
  ELSE realloc_grow(
         [s EXCEPT !.reg = realloc_expand(coalesce_blocks(@),
                                          IndexOf(coalesce_blocks(@), block.addr))],
         IndexOf(coalesce_blocks(s.reg), block.addr), ptr, size, slot, ub)

os_realloc(s, ptr, size, slot, ub) ==
  IF ptr = NULL THEN os_malloc(s, size, slot)
  ELSE IF IsZero(size) THEN [s |-> os_free(s, ptr), ret |-> NULL]
  ELSE realloc_block(s, BlockAt(s, get_block_ptr(ptr)), ptr, size, slot, ub)

----------------------------------------------------------------------------
(* The process: the allocator's state, the pointers the caller holds (with  *)
(* the size it asked for), the pointers it has freed, and the last call.    *)

\* the sizes below 2^32 of a set of byte counts
Below32(ns) == { size_t(0, n) : n \in ns }

\* 2^32 bytes, and 2^32 elements of 2^32 bytes
MallocSizes == Below32({0, 8, 131016, 140000}) \cup {size_t(1, 0)}
CallocArgs == { <<size_t(0, 0), size_t(0, 8)>>, <<size_t(0, 1), size_t(0, 5)>>,
                <<size_t(0, 2), size_t(0, 2500)>>, <<size_t(1, 0), size_t(1, 0)>> }
ReallocSizes == Below32({0, 20, 150000}) \cup {size_t(1, 8)}
MisuseSizes == Below32({0, 24})
NullSizes == Below32({24})

DeepMallocSizes == Below32({10000, 131016, 140000})
DeepReallocSizes == Below32({8, 140008})

S0 == [reg |-> reg, brk |-> brk, maps |-> maps, data |-> data,
       mmaps |-> <<>>, unmaps |-> <<>>, copies |-> <<>>, oob |-> FALSE,
       overlap |-> FALSE, wreck |-> FALSE, died |-> FALSE]

FreeSlots == { k \in Slots : \A m \in maps : m.addr # MapAddr(k) }

\* osize is the size of the block at ptr when the call is made
Call(op, ptr, nmemb, size) ==
  [op |-> op, ptr |-> ptr, nmemb |-> nmemb, size |-> size,
   osize |-> IF ptr # NULL /\ HasBlock(S0, get_block_ptr(ptr))
             THEN BlockAt(S0, get_block_ptr(ptr)).size ELSE 0,
   ret |-> NULL, returned |-> TRUE, mmaps |-> <<>>, unmaps |-> <<>>,
   copies |-> <<>>, oob |-> FALSE]

Init ==
  /\ reg = <<>>
  /\ brk = HeapBase
  /\ maps = {}
  /\ data = {}
  /\ held = {}
  /\ freed = {}
  /\ last = [op |-> "init", ptr |-> NULL, nmemb |-> size_t(0, 0),
             size |-> size_t(0, 0), osize |-> 0,
             ret |-> NULL, returned |-> TRUE, mmaps |-> <<>>, unmaps |-> <<>>,
             copies |-> <<>>, oob |-> FALSE]
  /\ pc = "ready"
  /\ nops = 0

\* the kernel may place a mapping in any free slot; a call that maps nothing
\* does not depend on the slot
SlotsFor(probe) == IF probe.s.mmaps = <<>> THEN {0} ELSE FreeSlots

\* undefined behaviour is resolved either way where the call runs into it
UbFor(probe) == IF probe.s.overlap THEN BOOLEAN ELSE {FALSE}

\* an access out of bounds may fault
FaultFor(r) == IF r.s.oob THEN BOOLEAN ELSE {FALSE}

\* the call ends: the process state becomes r.s; the call returns r.ret
\* unless the process died or an out-of-bounds access faulted
Finish(r, call, fault, held1, freed1) ==
  LET returns == ~r.s.died /\ ~(r.s.oob /\ fault)
  IN /\ reg' = r.s.reg
     /\ brk' = r.s.brk
     /\ maps' = r.s.maps
     /\ data' = r.s.data
     /\ last' = [call EXCEPT !.ret = IF returns THEN r.ret ELSE NULL,
                             !.returned = returns,
                             !.mmaps = r.s.mmaps,
                             !.unmaps = r.s.unmaps,
                             !.copies = r.s.copies,
                             !.oob = r.s.oob]
     /\ pc' = IF ~returns THEN "crashed"
              ELSE IF r.s.wreck THEN "wrecked" ELSE "ready"
     /\ held' = IF returns THEN held1 ELSE held
     /\ freed' = IF returns THEN freed1 ELSE freed
     /\ nops' = nops + 1

Got(ptr, n, written) == [ptr |-> ptr, n |-> n, written |-> written]

Malloc(sizes, maxops) ==
  /\ pc = "ready" /\ nops < maxops
  /\ \E size \in sizes :
       \E slot \in SlotsFor(os_malloc(S0, size, 0)) :
         \E r \in {os_malloc(S0, size, slot)} :
            \E fault \in FaultFor(r) :
              Finish(r, Call("malloc", NULL, size_t(0, 1), size), fault,
                     IF r.ret = NULL THEN held ELSE held \cup {Got(r.ret, size.lo, FALSE)},
                     freed \ {r.ret})

Calloc(args, maxops) ==
  /\ pc = "ready" /\ nops < maxops
  /\ \E a \in args :
       \E slot \in SlotsFor(os_calloc(S0, a[1], a[2], 0)) :
         \E r \in {os_calloc(S0, a[1], a[2], slot)} :
            \E fault \in FaultFor(r) :
              Finish(r, Call("calloc", NULL, a[1], a[2]), fault,
                     IF r.ret = NULL THEN held
                     ELSE held \cup {Got(r.ret, a[1].lo * a[2].lo, FALSE)},
                     freed \ {r.ret})

OnRegistry(ptr) == IndexOf(reg, get_block_ptr(ptr)) # 0

Free(maxops) ==
  /\ pc = "ready" /\ nops < maxops
  /\ \E h \in held :
       \E r \in {[s |-> os_free(S0, h.ptr), ret |-> NULL]} :
          \E fault \in FaultFor(r) :
            Finish(r, Call("free", h.ptr, size_t(0, 1), size_t(0, 0)), fault,
                   held \ {h},
                   IF OnRegistry(h.ptr) THEN freed \cup {h.ptr} ELSE freed)

FreeNull(maxops) ==
  /\ pc = "ready" /\ nops < maxops
  /\ Finish([s |-> os_free(S0, NULL), ret |-> NULL], Call("free", NULL, size_t(0, 1), size_t(0, 0)),
            FALSE, held, freed)

Realloc(sizes, maxops) ==
  /\ pc = "ready" /\ nops < maxops
  /\ \E h \in held, size \in sizes :
       \E probe \in {os_realloc(S0, h.ptr, size, 0, FALSE)} :
          \E slot \in SlotsFor(probe), ub \in UbFor(probe) :
            \E r \in {os_realloc(S0, h.ptr, size, slot, ub)} :
               \E fault \in FaultFor(r) :
                 Finish(r, Call("realloc", h.ptr, size_t(0, 1), size), fault,
                        IF r.ret = NULL THEN held \ {h}
                        ELSE (held \ {h}) \cup {Got(r.ret, size.lo, h.written)},
                        IF r.ret = h.ptr \/ ~OnRegistry(h.ptr) THEN freed
                        ELSE (freed \cup {h.ptr}) \ {r.ret})

ReallocNull(sizes, maxops) ==
  /\ pc = "ready" /\ nops < maxops
  /\ \E size \in sizes :
       \E slot \in SlotsFor(os_realloc(S0, NULL, size, 0, FALSE)) :
         \E r \in {os_realloc(S0, NULL, size, slot, FALSE)} :
            \E fault \in FaultFor(r) :
              Finish(r, Call("realloc", NULL, size_t(0, 1), size), fault,
                     IF r.ret = NULL THEN held ELSE held \cup {Got(r.ret, size.lo, FALSE)},
                     freed \ {r.ret})

\* misuse the allocator guards against: realloc of a pointer already freed,
\* whose block is still a FREE block of the registry
IsFreedBlock(ptr) ==
  /\ ptr \in freed
  /\ OnRegistry(ptr)
  /\ reg[IndexOf(reg, get_block_ptr(ptr))].status = STATUS_FREE

ReallocFreed(sizes, maxops) ==
  /\ pc = "ready" /\ nops < maxops
  /\ \E ptr \in freed, size \in sizes :
       /\ IsFreedBlock(ptr)
       /\ \E r \in {os_realloc(S0, ptr, size, 0, FALSE)} :
             \E fault \in FaultFor(r) :
               Finish(r, Call("realloc", ptr, size_t(0, 1), size), fault, held, freed)

\* the caller fills the payload it asked for with its own data
Write ==
  /\ pc = "ready"
  /\ \E h \in held :
       /\ ~h.written
       /\ Valid(S0, h.ptr, h.ptr + h.n)
       /\ ~HitsHeader(reg, h.ptr, h.ptr + h.n)
       /\ data' = Put(data, h.ptr, h.ptr + h.n, h.ptr, h.ptr)
       /\ held' = (held \ {h}) \cup {Got(h.ptr, h.n, TRUE)}
       /\ last' = Call("write", h.ptr, size_t(0, 1), size_t(0, h.n))
       /\ UNCHANGED <<reg, brk, maps, freed, pc, nops>>

Next ==
  \/ Malloc(MallocSizes, MaxOps)
  \/ Calloc(CallocArgs, MaxOps)
  \/ Free(MaxOps)
  \/ FreeNull(MaxOps)
  \/ Realloc(ReallocSizes, MaxOps)
  \/ ReallocFreed(MisuseSizes, MaxOps)

Spec == Init /\ [][Next]_vars

\* longer runs over fewer requests, with the caller writing its payloads
NextDeep ==
  \/ Malloc(DeepMallocSizes, MaxOpsDeep)
  \/ Free(MaxOpsDeep)
  \/ Realloc(DeepReallocSizes, MaxOpsDeep)
  \/ Write

SpecDeep == Init /\ [][NextDeep]_vars

\* Registries the program can have built in the preallocated arena: up to
\* MaxBlocks small blocks, each FREE or ALLOC, and a last block, FREE or
\* ALLOC, that takes the rest of the arena.  They are what malloc and free
\* leave behind, free never merging blocks.
FitBlockSizes == {32, 48}

\* the distance from the arena's start to its i-th block
RECURSIVE Offset(_, _)
Offset(sz, i) == IF i = 1 THEN 0 ELSE Offset(sz, i - 1) + sz[i - 1]

Arena(sz, st) ==
  [i \in 1 .. (Len(sz) + 1) |->
     Block(HeapBase + Offset(sz, i),
           IF i <= Len(sz) THEN sz[i] ELSE MMAP_THRESHOLD - Offset(sz, i),
           st[i])]

Arenas ==
  UNION { { Arena(sz, st) : sz \in [1 .. k -> FitBlockSizes],
                            st \in [1 .. (k + 1) -> {STATUS_FREE, STATUS_ALLOC}] } :
          k \in 0 .. MaxBlocks }

InitFit ==
  /\ reg \in Arenas
  /\ brk = HeapBase + MMAP_THRESHOLD
  /\ maps = {}
  /\ data = { [lo |-> reg[i].addr, hi |-> reg[i].addr + SizeofBlockMeta,
               tag |-> "meta", base |-> reg[i].addr] : i \in 1 .. Len(reg) }
  /\ held = { Got(reg[i].addr + HDR, reg[i].size - HDR, FALSE) :
               i \in { j \in 1 .. Len(reg) : reg[j].status = STATUS_ALLOC } }
  /\ freed = { reg[i].addr + HDR :
                i \in { j \in 1 .. (Len(reg) - 1) : reg[j].status = STATUS_FREE } }
  /\ last = [op |-> "init", ptr |-> NULL, nmemb |-> size_t(0, 0),
             size |-> size_t(0, 0), osize |-> 0,
             ret |-> NULL, returned |-> TRUE, mmaps |-> <<>>, unmaps |-> <<>>,
             copies |-> <<>>, oob |-> FALSE]
  /\ pc = "ready"
  /\ nops = 0

FitSizes == Below32({8, 24, 40})

NextFit ==
  \/ Malloc(FitSizes, MaxOpsFit)
  \/ ReallocNull(NullSizes, MaxOpsFit)
  \/ Free(MaxOpsFit)

SpecFit == InitFit /\ [][NextFit]_vars

----------------------------------------------------------------------------
(* Properties *)

\* the process after the step, for properties of a single call
Post == [reg |-> reg', brk |-> brk', maps |-> maps', data |-> data']

\* the step is a call of op that returned
Returned(op) == nops' = nops + 1 /\ last'.op = op /\ last'.returned

BlockOf(ptr) == BlockAt(S0, get_block_ptr(ptr))

\* the request of call c is for 2^32 bytes or more
HugeCall(c) == Huge(c.nmemb) \/ Huge(c.size)

\* the aligned total size S of the request of call c, when it is below 2^32
AlignedTotal(c) == HDR + ALIGN(c.nmemb.lo * c.size.lo)

\* the run of FREE blocks that follows registry block i without interruption
RECURSIVE FreeRun(_, _)
FreeRun(r, i) ==
  IF i < Len(r) /\ r[i + 1].status = STATUS_FREE
  THEN r[i + 1].size + FreeRun(r, i + 1)
  ELSE 0

\* C1: the blocks [header, header + size) of any two pointers the caller
\* holds are disjoint.
C1_LiveBlocksDisjoint ==
  pc = "ready" =>
    \A h1 \in held, h2 \in held :
      h1.ptr # h2.ptr =>
        ~Overlap(BlockOf(h1.ptr).addr, BlockOf(h1.ptr).addr + BlockOf(h1.ptr).size,
                 BlockOf(h2.ptr).addr, BlockOf(h2.ptr).addr + BlockOf(h2.ptr).size)

\* C2: a malloc (threshold 128 KiB) or calloc (threshold page size) that
\* returns non-null serves the request from a mapping when the aligned total
\* size reaches the threshold and from the registry when it does not.
C2_ServedByThreshold ==
  (pc = "ready" /\ last.op \in {"malloc", "calloc"} /\ last.ret # NULL) =>
    LET T == IF last.op = "malloc" THEN MMAP_THRESHOLD ELSE PageSize
        mapped == \E m \in maps : m.addr = get_block_ptr(last.ret)
    IN IF HugeCall(last) \/ AlignedTotal(last) >= T
       THEN mapped /\ ~OnRegistry(last.ret)
       ELSE OnRegistry(last.ret) /\ ~mapped

\* C3: between calls every registry block ends where its successor starts
\* and the last block ends at the program break.
C3_RegistryContiguous ==
  (pc = "ready" /\ reg # <<>>) =>
    /\ \A i \in 1 .. (Len(reg) - 1) : reg[i].addr + reg[i].size = reg[i + 1].addr
    /\ reg[Len(reg)].addr + reg[Len(reg)].size = brk

\* C4: after every public call no two consecutive registry blocks are FREE.
C4_NoAdjacentFree ==
  pc = "ready" =>
    \A i \in 1 .. (Len(reg) - 1) :
      ~(reg[i].status = STATUS_FREE /\ reg[i + 1].status = STATUS_FREE)

\* C5: realloc of a pointer whose block is FREE returns NULL and leaves the
\* registry, the break and the mappings as they were, whatever the size asked.
C5_ReallocFreedNoEffect ==
  [][ ( /\ nops' = nops + 1 /\ last'.op = "realloc"
        /\ last'.ptr # NULL /\ IsFreedBlock(last'.ptr) )
      => /\ last'.returned /\ last'.ret = NULL
         /\ pc' = "ready"
         /\ last'.unmaps = <<>> /\ last'.mmaps = <<>>
         /\ reg' = reg /\ brk' = brk /\ maps' = maps ]_vars

\* C6: munmap is only ever called on a block whose status is MAPPED.
C6_UnmapOnlyMapped ==
  \A i \in 1 .. Len(last.unmaps) : last.unmaps[i].status = STATUS_MAPPED

\* C7: between calls the live mappings are exactly the MAPPED blocks whose
\* payload pointers the caller holds.
C7_NoMappingLeaked ==
  pc = "ready" =>
    { m.addr + HDR : m \in maps } = { h.ptr : h \in {x \in held : x.ptr >= MapBase} }

\* C8: when the caller holds no pointer, the registry, if initialised, is one
\* FREE block spanning all memory obtained with sbrk, and no mapping is left.
C8_AllFreedOneBlock ==
  (pc = "ready" /\ held = {}) =>
    /\ maps = {}
    /\ reg = <<>> \/ ( /\ Len(reg) = 1
                       /\ reg[1].status = STATUS_FREE
                       /\ reg[1].size = brk - HeapBase )

\* C9: a realloc of a live block to a non-zero size that returns Q leaves at
\* Q the first min(old payload, new payload) bytes that were at P.
C9_ReallocPreservesContent ==
  [][ ( /\ Returned("realloc") /\ pc' = "ready"
        /\ last'.ptr # NULL /\ ~IsZero(last'.size) /\ last'.ret # NULL
        /\ \E h \in held : h.ptr = last'.ptr )
      => SameBytes(data, last'.ptr, data', last'.ret,
                   Min(last'.osize, BlockAt(Post, get_block_ptr(last'.ret)).size) - HDR)
    ]_vars

C11_CallocZeroed ==
  (pc = "ready" /\ last.op = "calloc" /\ last.ret # NULL) =>
    AllZero(data, last.ret,
            IF HugeCall(last) THEN AddressTop - last.ret
            ELSE last.nmemb.lo * last.size.lo)

\* C12: between calls every block, on the registry or mapped, has a size that
\* is a multiple of 8 and at least the aligned header size plus 8.
C12_BlockSizes ==
  pc = "ready" =>
    /\ \A i \in 1 .. Len(reg) :
         reg[i].size % ALIGNMENT = 0 /\ reg[i].size >= HDR + ALIGNMENT
    /\ \A m \in maps : m.size % ALIGNMENT = 0 /\ m.size >= HDR + ALIGNMENT

\* C13: every non-null pointer malloc, calloc or realloc returns is a multiple
\* of 8, and every registry block starts a multiple of 8 from the heap base.
C13_PointersAligned ==
  /\ (last.op \in {"malloc", "calloc", "realloc"} /\ last.returned /\ last.ret # NULL)
       => last.ret % ALIGNMENT = 0
  /\ pc = "ready" => \A i \in 1 .. Len(reg) : (reg[i].addr - HeapBase) % ALIGNMENT = 0

\* an allocation was returned above a live payload whose requested size is
\* not a multiple of 8
C13_AfterOddSize ==
  /\ pc = "ready" /\ last.op \in {"malloc", "calloc", "realloc"} /\ last.ret # NULL
  /\ \E h \in held : h.n % ALIGNMENT # 0 /\ h.ptr < last.ret /\ OnRegistry(h.ptr)
  /\ OnRegistry(last.ret)

\* no FREE block of registry r has size >= S
NoFit(r, S) == \A i \in 1 .. Len(r) : ~(r[i].status = STATUS_FREE /\ r[i].size >= S)

\* C14: a malloc or calloc for aligned total size S that finds, after the
\* coalesce pass, no FREE block of size >= S and a FREE tail extends the break
\* by exactly S - tail.size, creates no mapping and no registry block, and
\* returns the tail, ALLOC with size S and ending at the new break.
C14_TailExpansion ==
  [][ ( /\ (Returned("malloc") \/ Returned("calloc"))
        /\ ~HugeCall(last') /\ last'.ret # NULL
        /\ reg # <<>>
        /\ NoFit(coalesce_blocks(reg), AlignedTotal(last'))
        /\ coalesce_blocks(reg)[Len(coalesce_blocks(reg))].status = STATUS_FREE )
      => /\ brk' = brk + AlignedTotal(last')
                       - coalesce_blocks(reg)[Len(coalesce_blocks(reg))].size
         /\ last'.mmaps = <<>> /\ maps' = maps
         /\ Len(reg') = Len(coalesce_blocks(reg))
         /\ reg'[Len(reg')] = Block(coalesce_blocks(reg)[Len(coalesce_blocks(reg))].addr,
                                   AlignedTotal(last'), STATUS_ALLOC)
         /\ reg'[Len(reg')].addr + reg'[Len(reg')].size = brk'
         /\ last'.ret = reg'[Len(reg')].addr + HDR
    ]_vars

\* C15: a realloc of a MAPPED block B to a non-zero size whose aligned total
\* differs from B.size returns a new pointer, makes one copy, from the old
\* payload to the new, of min(B.size, new.size) minus the aligned header size
\* bytes, and unmaps B.
C15_MappedReallocMoves ==
  [][ ( /\ Returned("realloc")
        /\ last'.ptr # NULL /\ ~IsZero(last'.size)
        /\ \E h \in held : h.ptr = last'.ptr
        /\ BlockOf(last'.ptr).status = STATUS_MAPPED
        /\ (HugeCall(last') \/ BlockOf(last'.ptr).size # AlignedTotal(last')) )
      => /\ last'.ret # NULL /\ last'.ret # last'.ptr
         /\ HasBlock(Post, get_block_ptr(last'.ret))
         /\ last'.copies =
              << [dst |-> last'.ret, src |-> last'.ptr,
                  n |-> Min(BlockOf(last'.ptr).size,
                            BlockAt(Post, get_block_ptr(last'.ret)).size) - HDR] >>
         /\ last'.unmaps = << BlockOf(last'.ptr) >>
    ]_vars

\* the FREE blocks of registry r with size >= S
Fits(r, S) == { i \in 1 .. Len(r) : r[i].status = STATUS_FREE /\ r[i].size >= S }

\* i is the smallest of them and the first of that size
Smallest(r, S, i) ==
  /\ i \in Fits(r, S)
  /\ \A j \in Fits(r, S) :
       r[i].size < r[j].size \/ (r[i].size = r[j].size /\ i <= j)

FitProbes == {32, 48, 64, MMAP_THRESHOLD}

\* C16: on every registry find_best_fit(S) returns null exactly when no FREE
\* block has size >= S and otherwise the smallest FREE block of size >= S,
\* the first of that size in list order; a malloc returns the payload of that
\* block of the coalesced registry when there is one.
C16_BestFit ==
  /\ [] ( \A S \in FitProbes :
           IF Fits(reg, S) = {} THEN find_best_fit(reg, S) = 0
           ELSE Smallest(reg, S, find_best_fit(reg, S)) )
  /\ [][ ( /\ Returned("malloc") /\ ~HugeCall(last') /\ ~IsZero(last'.size)
            /\ Fits(coalesce_blocks(reg), AlignedTotal(last')) # {} )
          => \E i \in Fits(coalesce_blocks(reg), AlignedTotal(last')) :
               /\ Smallest(coalesce_blocks(reg), AlignedTotal(last'), i)
               /\ last'.ret = coalesce_blocks(reg)[i].addr + HDR
        ]_vars

\* a malloc reused a freed block although a later FREE block has the same size
C16_FirstOfEqual ==
  /\ pc = "ready" /\ last.op = "malloc" /\ last.ret # NULL
  /\ OnRegistry(last.ret)
  /\ \E j \in 1 .. Len(reg) :
       /\ reg[j].status = STATUS_FREE
       /\ reg[j].addr > last.ret
       /\ reg[j].size = BlockOf(last.ret).size
       /\ reg[j].size = AlignedTotal(last)

\* every block of r ends where the next one starts
Contiguous(r) == \A i \in 1 .. (Len(r) - 1) : r[i].addr + r[i].size = r[i + 1].addr

NoAdjacentFree(r) ==
  \A i \in 1 .. (Len(r) - 1) :
    ~(r[i].status = STATUS_FREE /\ r[i + 1].status = STATUS_FREE)

IsAlloc(b) == b.status = STATUS_ALLOC

RECURSIVE SumSizes(_, _)
SumSizes(r, i) == IF i > Len(r) THEN 0 ELSE r[i].size + SumSizes(r, i + 1)

\* C17: on a contiguous registry the coalesce pass leaves no two adjacent FREE
\* blocks, leaves the ALLOC blocks as they were, keeps the sum of the sizes,
\* and returns the last block of the result, null only for an empty registry.
C17_CoalescePass ==
  Contiguous(reg) =>
    /\ NoAdjacentFree(coalesce_blocks(reg))
    /\ Contiguous(coalesce_blocks(reg))
    /\ SelectSeq(coalesce_blocks(reg), IsAlloc) = SelectSeq(reg, IsAlloc)
    /\ SumSizes(coalesce_blocks(reg), 1) = SumSizes(reg, 1)
    /\ coalesce_last(reg) = Len(coalesce_blocks(reg))
    /\ (coalesce_last(reg) = 0) <=> (reg = <<>>)

\* a malloc ran the pass over three FREE blocks in a row: two freed blocks
\* next to each other have both been merged into the FREE block before them
C17_RunOfThree ==
  /\ pc = "ready" /\ last.op = "malloc" /\ last.ret # NULL
  /\ Contiguous(reg)
  /\ \E p \in freed, q \in freed :
       /\ p < q /\ q - p <= 48
       /\ IndexOf(reg, get_block_ptr(p)) = 0
       /\ IndexOf(reg, get_block_ptr(q)) = 0

\* t is the end of registry r
IsSuffix(t, r) == Len(t) <= Len(r) /\ t = SubSeq(r, Len(r) - Len(t) + 1, Len(r))

\* the step is a malloc or calloc that returned, or a realloc that returned
\* the pointer it was given
ServedInRegistry ==
  /\ \/ Returned("malloc") \/ Returned("calloc")
     \/ Returned("realloc") /\ last'.ret = last'.ptr
  /\ pc' = "ready" /\ last'.ret # NULL
  /\ IndexOf(reg', get_block_ptr(last'.ret)) # 0

\* registry block i of r follows a block that holds aligned total size S with
\* less than a minimal block to spare
SizedFor(r, i, c) ==
  /\ ~HugeCall(c)
  /\ AlignedTotal(c) <= r[i].size
  /\ r[i].size < AlignedTotal(c) + HDR + ALIGNMENT

\* a header that was not there before the call follows block i of r at
\* offset S: it is FREE and the blocks after it are the former successors
SplitOff(r, i, c, before) ==
  ( /\ i < Len(r)
    /\ r[i + 1].addr = r[i].addr + AlignedTotal(c)
    /\ IndexOf(before, r[i + 1].addr) = 0 )
  => /\ r[i + 1].status = STATUS_FREE
     /\ \/ IsSuffix(SubSeq(r, i + 2, Len(r)), before)
        \/ IsSuffix(SubSeq(r, i + 2, Len(r)), coalesce_blocks(before))

\* C18: a malloc, a calloc or an in-place realloc that returns a registry
\* block for aligned total size S returns one with S <= size < S + aligned
\* header size + 8; a block split off it lies at address(block) + S, is FREE
\* and is followed by the block's former successors.
C18_SplitOnFit ==
  [][ ServedInRegistry
      => /\ SizedFor(reg', IndexOf(reg', get_block_ptr(last'.ret)), last')
         /\ SplitOff(reg', IndexOf(reg', get_block_ptr(last'.ret)), last', reg)
    ]_vars

\* call c asks the contiguous heap for memory: a malloc with aligned total
\* size below MMAP_THRESHOLD, also when os_realloc makes it for a null pointer
\* or to move a block of another size, or a calloc with aligned total size
\* below the page size
HeapRequest(c) ==
  /\ ~HugeCall(c) /\ ~IsZero(c.nmemb) /\ ~IsZero(c.size)
  /\ \/ c.op = "malloc" /\ AlignedTotal(c) < MMAP_THRESHOLD
     \/ /\ c.op = "realloc" /\ AlignedTotal(c) < MMAP_THRESHOLD
        /\ c.ptr = NULL \/ c.osize # AlignedTotal(c)
     \/ c.op = "calloc" /\ AlignedTotal(c) < PageSize

\* the arena of first_time_prealloc was installed at the old break
Preallocated ==
  /\ brk' = brk + MMAP_THRESHOLD
  /\ reg' # <<>> /\ reg'[1].addr = brk
  /\ Contiguous(reg') /\ SumSizes(reg', 1) = MMAP_THRESHOLD

\* C19: while the registry is uninitialised a call preallocates exactly when
\* it is a malloc with aligned total size below 128 KiB or a calloc with
\* aligned total size below the page size, the break then growing by 128 KiB
\* for one block that becomes the registry head; any other call leaves the
\* registry uninitialised and the break where it was; once there is a head
\* it stays the head.
C19_PreallocOnce ==
  [][ /\ (reg = <<>> /\ nops' = nops + 1 /\ HeapRequest(last')) => Preallocated
      /\ (reg = <<>> /\ nops' = nops + 1 /\ ~HeapRequest(last'))
           => (reg' = <<>> /\ brk' = brk)
      /\ reg # <<>> => (reg' # <<>> /\ reg'[1].addr = reg[1].addr)
    ]_vars

\* C20: no call reads or writes a byte outside [heap base, break) and every
\* live mapping: not when it writes a header, when calloc zeroes the payload,
\* or when realloc copies it.
C20_AccessesInBounds == ~last.oob


====
